---- MODULE Spec2Model ----
(***************************************************************************)
(* A model of the simple-rust-blockchain peer (src/src/main.rs,            *)
(* src/src/p2p.rs): the proof-of-work miner, the block/chain validator,    *)
(* the fork-choice rule, the gossip message handler and the event loop.    *)
(*                                                                         *)
(* Strings are sequences of character codes: '0'..'9' are 0..9, 'a'..'z'   *)
(* are 10..35 (so the hex digits are exactly the codes 0..15), ' ' is 36   *)
(* and '!' is 37.  A panic is recorded as the panic message of the node;   *)
(* a panicked node takes no further step.                                  *)
(***************************************************************************)
EXTENDS Integers, Sequences, FiniteSets, TLC

VARIABLES
    blocks,           \* App.blocks of each node: its ledger
    panicked,         \* the panic message each node died with, or "none"
    init_pending,     \* whether the one-shot init signal is still to be handled
    response_chan,    \* the response_sender/response_receiver channel of each node
    outbox,           \* what each node handed to floodsub.publish, in order
    discovered,       \* the peers mdns reports to each node, in discovery order
    now,              \* Utc::now().timestamp()
    overflow_checks,  \* whether the build panics on integer overflow (debug) or wraps
    last_event,       \* the event handled by the latest step
    call              \* the latest direct call of a pure function, with its result

vars == <<blocks, panicked, init_pending, response_chan, outbox, discovered,
          now, overflow_checks, last_event, call>>

\* ------------------------------------------------------------------ bounds

\* Most blocks a ledger grows to by appending (create b, Block, Init).
MaxLen == 2
\* Latest value of the wall clock (seconds).
MaxTime == 1
\* Most ChainResponses waiting in the internal response channel.
MaxQueue == 1
\* Most messages a node publishes.
MaxOut == 1
\* Width in bits of the model's u64 (the code's is 64).
IdBits == 4

\* ------------------------------------------------------------- identifiers

Nodes == {"n1", "n2"}
\* The node whose handlers the open specifications exercise.
Self == "n1"
\* Every peer identifier on the network; "p3" is a peer that is not modelled.
PeerIds == Nodes \cup {"p3"}
\* PEER_ID.to_string() of node n.
PEER_ID(n) == n

CHAIN_TOPIC == "chains"
BLOCK_TOPIC == "blocks"

\* ----------------------------------------------------------------- strings

\* "00"
DIFF_PREFIX == <<0, 0>>
\* "genesis"
STR_genesis == <<16, 14, 23, 14, 28, 18, 28>>
\* "genesis!"
STR_genesis_data == <<16, 14, 23, 14, 28, 18, 28, 37>>
\* "0000f816a87f806bb0073dcf026a64fb40c946b5abee2573702828694d5b4c43", cut
\* to the three bytes "0000f8" that the model's digests have.
GENESIS_HASH == <<0, 0, 0, 0, 15, 8>>
GENESIS_NONCE == 2836
\* "ls p", "ls c", "create b"
CMD_ls_p == <<21, 28, 36, 25>>
CMD_ls_c == <<21, 28, 36, 12>>
CMD_create_b == <<12, 27, 14, 10, 29, 14, 36, 11>>

\* str::starts_with
starts_with(s, prefix) ==
    /\ Len(s) >= Len(prefix)
    /\ SubSeq(s, 1, Len(prefix)) = prefix

\* str::strip_prefix: the rest of s after prefix, or None.
strip_prefix(s, prefix) ==
    IF starts_with(s, prefix)
    THEN [some |-> TRUE, rest |-> SubSeq(s, Len(prefix) + 1, Len(s))]
    ELSE [some |-> FALSE, rest |-> <<>>]

Last(s) == s[Len(s)]
Range(s) == {s[i] : i \in 1..Len(s)}

\* -------------------------------------------------------------- arithmetic

U64_MAX == 2^IdBits - 1

\* a + b on u64: the sum, and whether it overflowed.
u64_add(a, b) ==
    [overflow |-> a + b > U64_MAX, value |-> (a + b) % (U64_MAX + 1)]

PANIC_NONE == "none"
PANIC_OVERFLOW == "attempt to add with overflow"
PANIC_HEX == "can decode from hex"
PANIC_NO_BLOCK == "there is at least one block."
PANIC_NO_LATEST == "at least one block"
PANIC_BOTH_INVALID == "local and remote chains are both invalid."

\* ------------------------------------------------------------------ hashing

\* format!("{:b}", c): the binary digits of a byte, without zero padding.
RECURSIVE fmt_b(_)
fmt_b(c) == IF c < 2 THEN <<c>> ELSE fmt_b(c \div 2) \o <<c % 2>>

RECURSIVE hash_to_bin(_)
hash_to_bin(hash) ==
    IF hash = <<>> THEN <<>>
    ELSE fmt_b(Head(hash)) \o hash_to_bin(Tail(hash))

\* hex::decode: Err for an odd length or a character that is no hex digit,
\* otherwise one byte per pair of digits.
hex_decode(s) ==
    IF Len(s) % 2 # 0 \/ \E i \in 1..Len(s) : s[i] > 15
    THEN [ok |-> FALSE, bytes |-> <<>>]
    ELSE [ok |-> TRUE,
          bytes |-> [i \in 1..(Len(s) \div 2) |-> 16 * s[2 * i - 1] + s[2 * i]]]

\* hex::encode: two lower-case hex digits per byte.
hex_encode(bytes) ==
    [i \in 1..(2 * Len(bytes)) |->
        IF i % 2 = 1 THEN bytes[(i + 1) \div 2] \div 16
                     ELSE bytes[(i + 1) \div 2] % 16]

RECURSIVE SumSeq(_)
SumSeq(s) == IF s = <<>> THEN 0 ELSE Head(s) + SumSeq(Tail(s))

\* calc_hash: the digest of the JSON object {id, previous_hash, data,
\* timestamp, nonce}.  SHA-256 is replaced by a three-byte digest that
\* depends on the same five fields; for every input exactly one nonce in
\* 0..3 gives a digest whose first two bytes are zero.
calc_hash(id, timestamp, prev_hash, data, nonce) ==
    LET seed == id + timestamp + SumSeq(prev_hash) + SumSeq(data)
    IN  << (seed + nonce) % 2,
           ((seed \div 2) + (nonce \div 2)) % 2,
           (7 * seed + 3 * nonce + 1) % 256 >>

\* mine_block's loop from a given nonce.
RECURSIVE mine_loop(_, _, _, _, _)
mine_loop(id, timestamp, prev_hash, data, nonce) ==
    LET hash == calc_hash(id, timestamp, prev_hash, data, nonce)
        bin_hash == hash_to_bin(hash)
    IN  IF starts_with(bin_hash, DIFF_PREFIX)
        THEN [nonce |-> nonce, hash |-> hex_encode(hash)]
        ELSE mine_loop(id, timestamp, prev_hash, data, nonce + 1)

\* mine_block whose search starts at nonce 1.
mine_block_from_one(id, timestamp, prev_hash, data) ==
    mine_loop(id, timestamp, prev_hash, data, 1)

mine_block(id, timestamp, prev_hash, data) ==
    mine_loop(id, timestamp, prev_hash, data, 0)

\* ------------------------------------------------------------------- blocks

Block(id, hash, prev_hash, timestamp, data, nonce) ==
    [id |-> id, hash |-> hash, prev_hash |-> prev_hash,
     timestamp |-> timestamp, data |-> data, nonce |-> nonce]

\* Block::new at wall-clock time t.
Block_new(id, prev_hash, data, t) ==
    LET m == mine_block(id, t, prev_hash, data)
    IN  Block(id, m.hash, prev_hash, t, data, m.nonce)

\* The block set_genesis pushes at wall-clock time t.
genesis_block(t) ==
    Block(0, GENESIS_HASH, STR_genesis, t, STR_genesis_data, GENESIS_NONCE)

\* --------------------------------------------------------------- validation

RES_TRUE == "true"
RES_FALSE == "false"

\* is_block_valid with the difficulty check moved before the prev_hash check.
is_block_valid_difficulty_first(block, prev) ==
    IF ~hex_decode(block.hash).ok THEN PANIC_HEX
    ELSE IF ~starts_with(hash_to_bin(hex_decode(block.hash).bytes), DIFF_PREFIX)
         THEN RES_FALSE
    ELSE IF block.prev_hash # prev.hash THEN RES_FALSE
    ELSE IF u64_add(prev.id, 1).overflow /\ overflow_checks THEN PANIC_OVERFLOW
    ELSE IF block.id # u64_add(prev.id, 1).value THEN RES_FALSE
    ELSE RES_TRUE

\* is_block_valid without the id check.
is_block_valid_id_unchecked(block, prev) ==
    IF block.prev_hash # prev.hash THEN RES_FALSE
    ELSE IF ~hex_decode(block.hash).ok THEN PANIC_HEX
    ELSE IF ~starts_with(hash_to_bin(hex_decode(block.hash).bytes), DIFF_PREFIX)
         THEN RES_FALSE
    ELSE RES_TRUE

\* is_block_valid that returns false when the recomputed hash differs.
is_block_valid_hash_checked(block, prev) ==
    IF block.prev_hash # prev.hash THEN RES_FALSE
    ELSE IF ~hex_decode(block.hash).ok THEN PANIC_HEX
    ELSE IF ~starts_with(hash_to_bin(hex_decode(block.hash).bytes), DIFF_PREFIX)
         THEN RES_FALSE
    ELSE IF u64_add(prev.id, 1).overflow /\ overflow_checks THEN PANIC_OVERFLOW
    ELSE IF block.id # u64_add(prev.id, 1).value THEN RES_FALSE
    ELSE IF hex_encode(calc_hash(block.id, block.timestamp, block.prev_hash,
                                 block.data, block.nonce)) # block.hash
         THEN RES_FALSE
    ELSE RES_TRUE

\* App::is_block_valid: "true", "false", or the message of the panic.
is_block_valid(block, prev) ==
    IF block.prev_hash # prev.hash THEN RES_FALSE
    ELSE IF ~hex_decode(block.hash).ok THEN PANIC_HEX
    ELSE IF ~starts_with(hash_to_bin(hex_decode(block.hash).bytes), DIFF_PREFIX)
         THEN RES_FALSE
    ELSE IF u64_add(prev.id, 1).overflow /\ overflow_checks THEN PANIC_OVERFLOW
    ELSE IF block.id # u64_add(prev.id, 1).value THEN RES_FALSE
    \* a recomputed hash that differs from block.hash is only logged
    ELSE RES_TRUE

\* The loop of App::is_chain_valid from index i (1-based; i >= 2).
RECURSIVE is_chain_valid_from(_, _)
is_chain_valid_from(chain, i) ==
    IF i > Len(chain) THEN RES_TRUE
    ELSE LET r == is_block_valid(chain[i], chain[i - 1])
         IN  IF r = RES_TRUE THEN is_chain_valid_from(chain, i + 1) ELSE r

\* App::is_chain_valid: "true", "false", or the message of the panic.
is_chain_valid(chain) == is_chain_valid_from(chain, 2)

\* choose_chain that keeps the local chain when neither chain is valid.
choose_chain_keeps_local(local, remote) ==
    LET is_local_valid == is_chain_valid(local)
        is_remote_valid == is_chain_valid(remote)
    IN  IF is_local_valid = RES_TRUE /\ is_remote_valid = RES_TRUE
        THEN IF Len(local) >= Len(remote)
             THEN [panic |-> PANIC_NONE, chain |-> local]
             ELSE [panic |-> PANIC_NONE, chain |-> remote]
        ELSE IF is_remote_valid = RES_TRUE
        THEN [panic |-> PANIC_NONE, chain |-> remote]
        ELSE [panic |-> PANIC_NONE, chain |-> local]

\* App::choose_chain: the chain returned, or the message of the panic.
choose_chain(local, remote) ==
    LET is_local_valid == is_chain_valid(local)
        is_remote_valid == is_chain_valid(remote)
    IN  IF is_local_valid \notin {RES_TRUE, RES_FALSE}
        THEN [panic |-> is_local_valid, chain |-> <<>>]
        ELSE IF is_remote_valid \notin {RES_TRUE, RES_FALSE}
        THEN [panic |-> is_remote_valid, chain |-> <<>>]
        ELSE IF is_local_valid = RES_TRUE /\ is_remote_valid = RES_TRUE
        THEN IF Len(local) >= Len(remote)
             THEN [panic |-> PANIC_NONE, chain |-> local]
             ELSE [panic |-> PANIC_NONE, chain |-> remote]
        ELSE IF is_remote_valid = RES_TRUE /\ is_local_valid # RES_TRUE
        THEN [panic |-> PANIC_NONE, chain |-> remote]
        ELSE IF is_remote_valid # RES_TRUE /\ is_local_valid = RES_TRUE
        THEN [panic |-> PANIC_NONE, chain |-> local]
        ELSE [panic |-> PANIC_BOTH_INVALID, chain |-> <<>>]

\* try_add_block that pushes the block without validating it.
try_add_block_unchecked(chain, block) ==
    IF chain = <<>> THEN [panic |-> PANIC_NO_BLOCK, chain |-> chain]
    ELSE [panic |-> PANIC_NONE, chain |-> Append(chain, block)]

\* try_add_block that validates the block and never pushes it.
try_add_block_never(chain, block) ==
    IF chain = <<>> THEN [panic |-> PANIC_NO_BLOCK, chain |-> chain]
    ELSE LET r == is_block_valid(block, Last(chain))
         IN  IF r \in {RES_TRUE, RES_FALSE} THEN [panic |-> PANIC_NONE, chain |-> chain]
             ELSE [panic |-> r, chain |-> chain]

\* App::try_add_block on ledger chain: the new ledger, or the panic.
try_add_block(chain, block) ==
    IF chain = <<>> THEN [panic |-> PANIC_NO_BLOCK, chain |-> chain]
    ELSE LET r == is_block_valid(block, Last(chain))
         IN  IF r = RES_TRUE THEN [panic |-> PANIC_NONE, chain |-> Append(chain, block)]
             ELSE IF r = RES_FALSE THEN [panic |-> PANIC_NONE, chain |-> chain]
             ELSE [panic |-> r, chain |-> chain]

\* ----------------------------------------------------------------- messages

\* The payloads, named by the first schema serde decodes them with
\* (ChainResponse, then LocalChainRequest, then Block); "Other" decodes
\* with none.
ChainResponse(chain, receiver) ==
    [type |-> "ChainResponse", blocks |-> chain, receiver |-> receiver]
LocalChainRequest(from_peer_id) ==
    [type |-> "LocalChainRequest", from_peer_id |-> from_peer_id]
BlockMsg(block) == [type |-> "Block", block |-> block]
OtherMsg == [type |-> "Other"]

\* A FloodsubEvent::Message: its source and its data.
Message(source, data) == [source |-> source, data |-> data]
\* A publication: the topic and the data.
Publication(topic, data) == [topic |-> topic, data |-> data]

\* ------------------------------------------------------------------- inputs

\* Hashes a remote block may carry: the genesis hash, a hash whose first
\* byte 0x3f has two leading zero bits only when padded to eight digits, and
\* a string that is not hex ("genesis").
H_PAD == <<3, 15, 0, 0>>
InHashes == {GENESIS_HASH, H_PAD, STR_genesis}
InPrevHashes == {STR_genesis, GENESIS_HASH}
InIds == {0, 1, 2, U64_MAX}

\* The blocks of inbound Block messages.
InBlocks ==
    {Block(id, h, ph, 0, <<>>, 0) : id \in InIds, h \in InHashes, ph \in InPrevHashes}

\* The blocks of inbound chains: those that stand first (no check reads the
\* prev_hash of a first block), those that head a chain of two, and those
\* that stand second.
ChainIds == {0, 1, U64_MAX}
ChainFirsts ==
    {Block(id, h, STR_genesis, 0, <<>>, 0) :
        id \in ChainIds, h \in {GENESIS_HASH, STR_genesis}}
ChainHeads ==
    {Block(id, GENESIS_HASH, STR_genesis, 0, <<>>, 0) : id \in {0, U64_MAX}}
ChainSeconds ==
    {Block(id, h, ph, 0, <<>>, 0) :
        id \in ChainIds, h \in {GENESIS_HASH, STR_genesis}, ph \in InPrevHashes}

\* The chains of inbound ChainResponses.
InChains ==
    {<<>>} \cup {<<b>> : b \in ChainFirsts}
           \cup {<<a, b>> : a \in ChainHeads, b \in ChainSeconds}

\* The messages an arbitrary network may deliver to node n: every payload
\* with every field value above.  The source is read only from a
\* LocalChainRequest; the requests that name node n itself are those its
\* peers publish (Deliver).
InMessages(n) ==
    {Message("p3", ChainResponse(c, r)) : c \in InChains, r \in Nodes}
    \cup {Message(s, LocalChainRequest(p)) : s \in PeerIds \ {n}, p \in PeerIds \ {n}}
    \cup {Message("p3", BlockMsg(b)) : b \in InBlocks}
    \cup {Message("p3", OtherMsg)}

\* The data of a mined block: "" and " x".
InData == {<<>>, <<36, 33>>}

\* Digests handed to hash_to_bin: first bytes 0x00, 0x01, 0x3f (two leading
\* zero bits only when written as eight digits), 0x40 and 0xff.
InDigests ==
    {<<0, 0, 248>>, <<0, 1, 0>>, <<0, 64, 0>>, <<1, 0, 0>>, <<63, 0, 0>>,
     <<64, 0, 0>>, <<255, 255, 255>>}

\* The lines of user input: "ls p", "ls c", "create b", "create b x", "hi".
InLines ==
    {CMD_ls_p, CMD_ls_c, CMD_create_b, CMD_create_b \o <<36, 33>>, <<17, 18>>}

\* ---------------------------------------------------------------- the state

NoEvent == [node |-> "none", kind |-> "none", arg |-> "none"]
Event(n, kind, arg) == [node |-> n, kind |-> kind, arg |-> arg]
NoCall == [fn |-> "none"]

Init ==
    /\ blocks = [n \in Nodes |-> <<>>]
    /\ panicked = [n \in Nodes |-> PANIC_NONE]
    /\ init_pending = [n \in Nodes |-> TRUE]
    /\ response_chan = [n \in Nodes |-> <<>>]
    /\ outbox = [n \in Nodes |-> <<>>]
    /\ discovered = [n \in Nodes |-> <<>>]
    /\ now = 0
    /\ overflow_checks \in BOOLEAN
    /\ last_event = NoEvent
    /\ call = NoCall

Alive(n) == panicked[n] = PANIC_NONE

\* The wall clock advances.
Tick ==
    /\ now < MaxTime
    /\ now' = now + 1
    /\ UNCHANGED <<blocks, panicked, init_pending, response_chan, outbox,
                   discovered, overflow_checks, last_event, call>>

\* MdnsEvent::Discovered of peer p at node n.
MdnsDiscovered(n, p) ==
    /\ Alive(n)
    /\ p # n
    /\ p \notin Range(discovered[n])
    /\ discovered' = [discovered EXCEPT ![n] = Append(@, p)]
    /\ UNCHANGED <<blocks, panicked, init_pending, response_chan, outbox,
                   now, overflow_checks, last_event, call>>

\* MdnsEvent::Expired of peer p at node n.
MdnsExpired(n, p) ==
    /\ Alive(n)
    /\ p \in Range(discovered[n])
    /\ discovered' = [discovered EXCEPT ![n] = SelectSeq(@, LAMBDA q : q # p)]
    /\ UNCHANGED <<blocks, panicked, init_pending, response_chan, outbox,
                   now, overflow_checks, last_event, call>>

\* ----------------------------------------------------------------- handlers

\* What a handler of node n leaves behind: the node's ledger, panic message,
\* response channel and publications, and the event it handled.
NodeStep(n, new_blocks, new_panic, new_chan, new_outbox, event) ==
    /\ blocks' = [blocks EXCEPT ![n] = new_blocks]
    /\ panicked' = [panicked EXCEPT ![n] = new_panic]
    /\ response_chan' = [response_chan EXCEPT ![n] = new_chan]
    /\ outbox' = [outbox EXCEPT ![n] = new_outbox]
    /\ last_event' = event
    /\ UNCHANGED <<init_pending, discovered, now, overflow_checks, call>>

\* get_list_peers: the discovered peers, collected through a HashSet, in any
\* of the orders the set may iterate in.
get_list_peers(n) ==
    LET S == Range(discovered[n])
    IN  {peers \in [1..Cardinality(S) -> S] : Range(peers) = S}

\* main, EventType::Init: set_genesis, then ask the last peer of the list
\* for its chain.
HandleInit(n) ==
    /\ Alive(n)
    /\ init_pending[n]
    /\ init_pending' = [init_pending EXCEPT ![n] = FALSE]
    /\ blocks' = [blocks EXCEPT ![n] = Append(@, genesis_block(now))]
    /\ \E peers \in get_list_peers(n) :
          IF peers = <<>>
          THEN outbox' = outbox
          ELSE /\ Len(outbox[n]) < MaxOut
               /\ outbox' = [outbox EXCEPT ![n] =
                     Append(@, Publication(CHAIN_TOPIC, LocalChainRequest(Last(peers))))]
    /\ last_event' = Event(n, "Init", "none")
    /\ UNCHANGED <<panicked, response_chan, discovered, now, overflow_checks, call>>

\* main, EventType::LocalChainResponse: publish the next response of the
\* internal channel on the chain topic.
HandleLocalChainResponse(n) ==
    /\ Alive(n)
    /\ response_chan[n] # <<>>
    /\ Len(outbox[n]) < MaxOut
    /\ NodeStep(n, blocks[n], PANIC_NONE, Tail(response_chan[n]),
                Append(outbox[n], Publication(CHAIN_TOPIC, Head(response_chan[n]))),
                Event(n, "LocalChainResponse", "none"))

\* p2p::create_block.
create_block(cmd, n) ==
    LET data == strip_prefix(cmd, CMD_create_b)
        ev(arg) == Event(n, "Input", arg)
    IN  IF ~data.some
        THEN NodeStep(n, blocks[n], PANIC_NONE, response_chan[n], outbox[n],
                      ev("none"))
        ELSE IF blocks[n] = <<>>
        THEN NodeStep(n, blocks[n], PANIC_NO_LATEST, response_chan[n], outbox[n],
                      ev("create b"))
        ELSE LET latest_block == Last(blocks[n])
                 id == u64_add(latest_block.id, 1)
                 block == Block_new(id.value, latest_block.hash, data.rest, now)
             IN  IF id.overflow /\ overflow_checks
                 THEN NodeStep(n, blocks[n], PANIC_OVERFLOW, response_chan[n],
                               outbox[n], ev("create b"))
                 ELSE /\ Len(blocks[n]) < MaxLen
                      /\ Len(outbox[n]) < MaxOut
                      /\ NodeStep(n, Append(blocks[n], block), PANIC_NONE,
                                  response_chan[n],
                                  Append(outbox[n],
                                         Publication(BLOCK_TOPIC, BlockMsg(block))),
                                  ev("create b"))

\* main, EventType::Input: one line of user input.
HandleInput(n, line) ==
    /\ Alive(n)
    /\ IF line = CMD_ls_p
       THEN NodeStep(n, blocks[n], PANIC_NONE, response_chan[n], outbox[n],
                     Event(n, "Input", "none"))
       ELSE IF starts_with(line, CMD_ls_c)
       THEN NodeStep(n, blocks[n], PANIC_NONE, response_chan[n], outbox[n],
                     Event(n, "Input", "none"))
       ELSE IF starts_with(line, CMD_create_b)
       THEN create_block(line, n)
       ELSE NodeStep(n, blocks[n], PANIC_NONE, response_chan[n], outbox[n],
                     Event(n, "Input", "none"))

\* inject_event that merges every ChainResponse, whoever its receiver is.
inject_event_any_receiver(n, msg) ==
    /\ Alive(n)
    /\ IF msg.data.type = "ChainResponse"
       THEN LET chosen == choose_chain(blocks[n], msg.data.blocks)
            IN  NodeStep(n,
                         IF chosen.panic = PANIC_NONE THEN chosen.chain
                                                      ELSE blocks[n],
                         chosen.panic, response_chan[n], outbox[n],
                         Event(n, "ChainResponse",
                               IF msg.data.receiver = PEER_ID(n)
                               THEN "for this node" ELSE "for another node"))
       ELSE IF msg.data.type = "LocalChainRequest"
       THEN IF PEER_ID(n) = msg.data.from_peer_id
            THEN /\ Len(response_chan[n]) < MaxQueue
                 /\ NodeStep(n, blocks[n], PANIC_NONE,
                             Append(response_chan[n],
                                    ChainResponse(blocks[n], msg.source)),
                             outbox[n],
                             Event(n, "LocalChainRequest", "for this node"))
            ELSE NodeStep(n, blocks[n], PANIC_NONE, response_chan[n], outbox[n],
                          Event(n, "LocalChainRequest", "for another node"))
       ELSE IF msg.data.type = "Block"
       THEN LET added == try_add_block(blocks[n], msg.data.block)
            IN  /\ Len(added.chain) <= MaxLen \/ added.chain = blocks[n]
                /\ NodeStep(n, added.chain, added.panic, response_chan[n],
                            outbox[n], Event(n, "Block", "none"))
       ELSE NodeStep(n, blocks[n], PANIC_NONE, response_chan[n], outbox[n],
                     Event(n, "Other", "none"))

\* inject_event that answers a LocalChainRequest when its source, not its
\* from_peer_id, is this node's identifier.
inject_event_answers_source(n, msg) ==
    /\ Alive(n)
    /\ IF msg.data.type = "ChainResponse"
       THEN IF msg.data.receiver = PEER_ID(n)
            THEN LET chosen == choose_chain(blocks[n], msg.data.blocks)
                 IN  NodeStep(n,
                              IF chosen.panic = PANIC_NONE THEN chosen.chain
                                                           ELSE blocks[n],
                              chosen.panic, response_chan[n], outbox[n],
                              Event(n, "ChainResponse", "for this node"))
            ELSE NodeStep(n, blocks[n], PANIC_NONE, response_chan[n], outbox[n],
                          Event(n, "ChainResponse", "for another node"))
       ELSE IF msg.data.type = "LocalChainRequest"
       THEN IF PEER_ID(n) = msg.source
            THEN /\ Len(response_chan[n]) < MaxQueue
                 /\ NodeStep(n, blocks[n], PANIC_NONE,
                             Append(response_chan[n],
                                    ChainResponse(blocks[n], msg.source)),
                             outbox[n],
                             Event(n, "LocalChainRequest", "for this node"))
            ELSE NodeStep(n, blocks[n], PANIC_NONE, response_chan[n], outbox[n],
                          Event(n, "LocalChainRequest", "for another node"))
       ELSE IF msg.data.type = "Block"
       THEN LET added == try_add_block(blocks[n], msg.data.block)
            IN  /\ Len(added.chain) <= MaxLen \/ added.chain = blocks[n]
                /\ NodeStep(n, added.chain, added.panic, response_chan[n],
                            outbox[n], Event(n, "Block", "none"))
       ELSE NodeStep(n, blocks[n], PANIC_NONE, response_chan[n], outbox[n],
                     Event(n, "Other", "none"))

\* AppBehaviour::inject_event(FloodsubEvent::Message(msg)).
inject_event(n, msg) ==
    /\ Alive(n)
    /\ IF msg.data.type = "ChainResponse"
       THEN IF msg.data.receiver = PEER_ID(n)
            THEN LET chosen == choose_chain(blocks[n], msg.data.blocks)
                 IN  NodeStep(n,
                              IF chosen.panic = PANIC_NONE THEN chosen.chain
                                                           ELSE blocks[n],
                              chosen.panic, response_chan[n], outbox[n],
                              Event(n, "ChainResponse", "for this node"))
            ELSE NodeStep(n, blocks[n], PANIC_NONE, response_chan[n], outbox[n],
                          Event(n, "ChainResponse", "for another node"))
       ELSE IF msg.data.type = "LocalChainRequest"
       THEN IF PEER_ID(n) = msg.data.from_peer_id
            THEN /\ Len(response_chan[n]) < MaxQueue
                 /\ NodeStep(n, blocks[n], PANIC_NONE,
                             Append(response_chan[n],
                                    ChainResponse(blocks[n], msg.source)),
                             outbox[n],
                             Event(n, "LocalChainRequest", "for this node"))
            ELSE NodeStep(n, blocks[n], PANIC_NONE, response_chan[n], outbox[n],
                          Event(n, "LocalChainRequest", "for another node"))
       ELSE IF msg.data.type = "Block"
       THEN LET added == try_add_block(blocks[n], msg.data.block)
            IN  /\ Len(added.chain) <= MaxLen \/ added.chain = blocks[n]
                /\ NodeStep(n, added.chain, added.panic, response_chan[n],
                            outbox[n], Event(n, "Block", "none"))
       ELSE NodeStep(n, blocks[n], PANIC_NONE, response_chan[n], outbox[n],
                     Event(n, "Other", "none"))

\* ------------------------------------------------------------- environment

\* The network delivers to node n any message.
Receive(n) ==
    \E msg \in InMessages(n) : inject_event(n, msg)

\* The network delivers to node n the i-th publication of node src.
Deliver(n, src, i) ==
    /\ src # n
    /\ i \in 1..Len(outbox[src])
    /\ inject_event(n, Message(src, outbox[src][i].data))

\* The network delivers to node n a Block message with any block.
ReceiveBlock(n) ==
    \E b \in InBlocks : inject_event(n, Message("p3", BlockMsg(b)))

\* A direct call of is_block_valid.
call_is_block_valid(block, prev) ==
    /\ call = NoCall
    /\ call' = [fn |-> "is_block_valid", block |-> block, prev |-> prev,
                ret |-> is_block_valid(block, prev)]
    /\ UNCHANGED <<blocks, panicked, init_pending, response_chan, outbox,
                   discovered, now, overflow_checks, last_event>>

\* A direct call of choose_chain.
call_choose_chain(local, remote) ==
    /\ call = NoCall
    /\ call' = [fn |-> "choose_chain", local |-> local, remote |-> remote,
                ret |-> choose_chain(local, remote)]
    /\ UNCHANGED <<blocks, panicked, init_pending, response_chan, outbox,
                   discovered, now, overflow_checks, last_event>>

\* A direct call of mine_block.
call_mine_block(id, timestamp, prev_hash, data) ==
    /\ call = NoCall
    /\ call' = [fn |-> "mine_block", id |-> id, timestamp |-> timestamp,
                prev_hash |-> prev_hash, data |-> data,
                ret |-> mine_block(id, timestamp, prev_hash, data)]
    /\ UNCHANGED <<blocks, panicked, init_pending, response_chan, outbox,
                   discovered, now, overflow_checks, last_event>>

\* A direct call of hash_to_bin.
call_hash_to_bin(hash) ==
    /\ call = NoCall
    /\ call' = [fn |-> "hash_to_bin", hash |-> hash, ret |-> hash_to_bin(hash)]
    /\ UNCHANGED <<blocks, panicked, init_pending, response_chan, outbox,
                   discovered, now, overflow_checks, last_event>>

\* ------------------------------------------------------- the specifications

\* One node, started at time 0, on a network that delivers any message.
Next ==
    \/ HandleInit(Self)
    \/ \E line \in InLines : HandleInput(Self, line)
    \/ Receive(Self)

Spec == Init /\ [][Next]_vars

\* One node whose ledger changes only by set_genesis, create b and inbound
\* Block messages.
NextAppend ==
    \/ Tick
    \/ HandleInit(Self)
    \/ \E line \in InLines : HandleInput(Self, line)
    \/ ReceiveBlock(Self)

SpecAppend == Init /\ [][NextAppend]_vars

\* The peers of Nodes, which discover each other, on a network that delivers
\* only what they publish, in any order, any number of times or never.
NextNet ==
    \/ Tick
    \/ \E n \in Nodes : HandleInit(n)
    \/ \E n \in Nodes : HandleInput(n, CMD_create_b \o <<36, 33>>)
    \/ \E n \in Nodes : HandleLocalChainResponse(n)
    \/ \E n \in Nodes, p \in Nodes : MdnsDiscovered(n, p)
    \/ \E n \in Nodes, p \in Nodes : MdnsExpired(n, p)
    \/ \E n \in Nodes, src \in Nodes, i \in 1..MaxOut : Deliver(n, src, i)

SpecNet == Init /\ [][NextNet]_vars

\* The peers of Nodes at a fixed time, with a third peer in reach of mdns:
\* discovery, the Init request and the answer to it.
NextSync ==
    \/ \E n \in Nodes, p \in PeerIds : MdnsDiscovered(n, p)
    \/ \E n \in Nodes, p \in PeerIds : MdnsExpired(n, p)
    \/ \E n \in Nodes : HandleInit(n)
    \/ \E n \in Nodes : HandleLocalChainResponse(n)
    \/ \E n \in Nodes, src \in Nodes, i \in 1..MaxOut : Deliver(n, src, i)

SpecSync == Init /\ [][NextSync]_vars

\* Direct calls of the pure functions on every input of the sets above.
NextPure ==
    \/ \E block \in InBlocks, prev \in InBlocks : call_is_block_valid(block, prev)
    \/ \E local \in InChains, remote \in InChains : call_choose_chain(local, remote)
    \/ \E id \in InIds, t \in 0..MaxTime, ph \in InHashes, data \in InData :
          call_mine_block(id, t, ph, data)
    \/ \E hash \in InDigests : call_hash_to_bin(hash)

SpecPure == Init /\ [][NextPure]_vars

\* ------------------------------------------------------------------- claims

Passes(r) == r = RES_TRUE
IsChainResponseFor(msg, n) ==
    msg.data.type = "ChainResponse" /\ msg.data.receiver = PEER_ID(n)
\* The inbound ChainResponses addressed to Self, and those addressed elsewhere.
ResponsesForSelf ==
    {Message("p3", ChainResponse(c, PEER_ID(Self))) : c \in InChains}
ResponsesForOthers ==
    {Message("p3", ChainResponse(c, r)) : c \in InChains, r \in Nodes \ {Self}}

\* C1: whenever at least one of local and remote passes is_chain_valid,
\* choose_chain returns the longer chain if both pass (local if they are
\* equally long) and the one that passes if only one does.
C1_ChooseChainReturnsValid ==
    call.fn = "choose_chain" =>
        LET l == Passes(is_chain_valid(call.local))
            r == Passes(is_chain_valid(call.remote))
        IN  (l \/ r) =>
                call.ret = [panic |-> PANIC_NONE,
                            chain |-> IF l /\ r
                                      THEN IF Len(call.remote) > Len(call.local)
                                           THEN call.remote ELSE call.local
                                      ELSE IF l THEN call.local ELSE call.remote]

\* C2: handling a ChainResponse addressed to this node when neither the
\* ledger nor the received chain passes is_chain_valid leaves the node
\* panicked.
C2_AbortWhenNeitherValid ==
    [][ (last_event'.kind = "ChainResponse" /\ panicked'[Self] = PANIC_NONE)
        => \/ Passes(is_chain_valid(blocks[Self]))
           \/ \A msg \in ResponsesForSelf :
                 \/ Passes(is_chain_valid(msg.data.blocks))
                 \/ ~inject_event(Self, msg) ]_vars

\* C2 witness: the node died in choose_chain's last branch.
C2_Witness == panicked[Self] = PANIC_BOTH_INVALID

\* C3: is_block_valid returns false whenever the candidate's prev_hash
\* differs from the predecessor's hash, whatever the other fields are (a
\* hash that is not hex included).
C3_WrongPrevHashRejected ==
    (call.fn = "is_block_valid" /\ call.block.prev_hash # call.prev.hash)
        => call.ret = RES_FALSE

\* C3 witness: a candidate with a wrong prev_hash and a hash that is not hex
\* was rejected.
C3_Witness ==
    /\ call.fn = "is_block_valid"
    /\ call.block.prev_hash # call.prev.hash
    /\ ~hex_decode(call.block.hash).ok
    /\ call.ret = RES_FALSE

\* C4: is_block_valid returns false whenever the candidate's id is not the
\* predecessor's id plus one.
C4_OutOfSequenceRejected ==
    (call.fn = "is_block_valid" /\ call.block.id # call.prev.id + 1)
        => call.ret = RES_FALSE

C6_OtherReceiverIgnored ==
    [][ last_event'.kind = "ChainResponse"
        => \A msg \in ResponsesForOthers :
              \/ blocks' = blocks /\ panicked' = panicked
              \/ ~inject_event(Self, msg) ]_vars

\* C6 witness: a ChainResponse for another peer was handled by a node whose
\* ledger is not empty.
C6_Witness ==
    /\ last_event = Event(Self, "ChainResponse", "for another node")
    /\ blocks[Self] # <<>>

\* C7: an inbound Block that passes is_block_valid against the last block of
\* the ledger is appended; any other inbound Block leaves the ledger as it
\* was.
C7_BlockAppendedOrDropped ==
    [][ last_event'.kind = "Block"
        => \A b \in InBlocks :
              \/ blocks'[Self] =
                    IF blocks[Self] # <<>>
                       /\ Passes(is_block_valid(b, Last(blocks[Self])))
                    THEN Append(blocks[Self], b)
                    ELSE blocks[Self]
              \/ ~inject_event(Self, Message("p3", BlockMsg(b))) ]_vars

\* C7 witness: an inbound Block was appended.
C7_Witness ==
    /\ last_event.kind = "Block"
    /\ Len(blocks[Self]) >= 2
    /\ Last(blocks[Self]) \in InBlocks
    /\ panicked[Self] = PANIC_NONE

\* C8: handling an inbound message panics only if it is a ChainResponse for
\* this node and neither the ledger nor the received chain is valid.
C8_InboundNeverPanics ==
    [][ panicked'[Self] # PANIC_NONE
        => \A msg \in InMessages(Self) :
              inject_event(Self, msg)
              => /\ IsChainResponseFor(msg, Self)
                 /\ ~Passes(is_chain_valid(blocks[Self]))
                 /\ ~Passes(is_chain_valid(msg.data.blocks)) ]_vars

\* C9: two peers that have handled Init hold equal genesis blocks.  (A
\* ledger of one block at a peer that has handled Init is the genesis block
\* that peer placed.)
C9_SameGenesis ==
    \A a \in Nodes, b \in Nodes :
        ( /\ ~init_pending[a] /\ Len(blocks[a]) = 1
          /\ ~init_pending[b] /\ Len(blocks[b]) = 1 )
        => blocks[a][1] = blocks[b][1]

\* C10: a line that starts with "create b" appends one block that follows
\* the last one (id + 1, prev_hash its hash), passes is_block_valid against
\* it and is published on the block topic, and the node does not panic.
C10_CreateAppendsAndPublishes ==
    [][ last_event'.kind = "Input"
        => \A line \in InLines :
              (starts_with(line, CMD_create_b) /\ HandleInput(Self, line))
              => /\ panicked'[Self] = PANIC_NONE
                 /\ blocks[Self] # <<>>
                 /\ blocks'[Self] = Append(blocks[Self], Last(blocks'[Self]))
                 /\ Last(blocks'[Self]).id = Last(blocks[Self]).id + 1
                 /\ Last(blocks'[Self]).prev_hash = Last(blocks[Self]).hash
                 /\ Passes(is_block_valid(Last(blocks'[Self]), Last(blocks[Self])))
                 /\ outbox'[Self] =
                       Append(outbox[Self],
                              Publication(BLOCK_TOPIC, BlockMsg(Last(blocks'[Self])))) ]_vars

\* The implemented difficulty predicate on a digest.
MeetsDifficulty(hash) == starts_with(hash_to_bin(hash), DIFF_PREFIX)

\* C11: mine_block returns (n, h) where h is the hex encoding of the hash of
\* the inputs with nonce n, h meets the difficulty predicate, and no nonce
\* below n gives a hash that meets it.
C11_MinesSmallestNonce ==
    call.fn = "mine_block" =>
        LET n == call.ret.nonce
            h == call.ret.hash
            hash_at(m) ==
                calc_hash(call.id, call.timestamp, call.prev_hash, call.data, m)
        IN  /\ n >= 0
            /\ hex_encode(hash_at(n)) = h
            /\ hex_decode(h).ok
            /\ MeetsDifficulty(hex_decode(h).bytes)
            /\ \A m \in 0..(n - 1) : ~MeetsDifficulty(hash_at(m))

\* C11 witness: a search that had to pass over at least two nonces.
C11_Witness ==
    /\ call.fn = "mine_block"
    /\ call.ret.nonce >= 2
    /\ call.data # <<>>

\* The hash recomputed from a block's own fields, as hex.
Rehash(b) == hex_encode(calc_hash(b.id, b.timestamp, b.prev_hash, b.data, b.nonce))

\* The prev_hash, difficulty and id checks of a candidate, each passed.
PassesLinkChecks(b, prev) ==
    /\ b.prev_hash = prev.hash
    /\ hex_decode(b.hash).ok
    /\ MeetsDifficulty(hex_decode(b.hash).bytes)
    /\ ~(u64_add(prev.id, 1).overflow /\ overflow_checks)
    /\ b.id = u64_add(prev.id, 1).value

\* C12: a LocalChainRequest that a peer's Init handler published puts no
\* ChainResponse on the response channel of the node it is delivered to.
C12_NeverAnswersRequest ==
    [][ last_event'.kind = "LocalChainRequest"
        => response_chan' = response_chan ]_vars

\* C12 as amended: a LocalChainRequest that a peer's Init handler published
\* and that is delivered to node n puts ChainResponse(n's ledger, receiver =
\* the source of the request) on n's response channel when its from_peer_id
\* is n's own identifier, and nothing otherwise.
C12_AnswersWhenNamed ==
    [][ last_event'.kind = "LocalChainRequest"
        => \A n \in Nodes, src \in Nodes, i \in 1..MaxOut :
              \/ ~Deliver(n, src, i)
              \/ response_chan'[n] =
                    IF outbox[src][i].data.from_peer_id = PEER_ID(n)
                    THEN Append(response_chan[n],
                                ChainResponse(blocks[n], PEER_ID(src)))
                    ELSE response_chan[n] ]_vars

\* C12 witness: a node has just answered the request of another peer.
C12_Witness ==
    \E n \in Nodes :
        /\ last_event = Event(n, "LocalChainRequest", "for this node")
        /\ response_chan[n] # <<>>
        /\ Last(response_chan[n]).receiver \in Nodes \ {n}
        /\ Last(response_chan[n]).blocks = blocks[n]

\* C13: when Init is handled and at least one peer is known, the request
\* published names the peer discovered last.
C13_RequestsLatestPeer ==
    [][ \A n \in Nodes :
          (last_event' = Event(n, "Init", "none") /\ init_pending[n]
           /\ discovered[n] # <<>>)
          => /\ outbox'[n] # outbox[n]
             /\ Last(outbox'[n]) =
                   Publication(CHAIN_TOPIC,
                               LocalChainRequest(Last(discovered[n]))) ]_vars

\* C14: an inbound Block that passes the prev_hash, difficulty and id checks
\* against the last block of the ledger is appended, whether or not its
\* hash field is the hash of its other fields.
C14_ForgedHashAccepted ==
    [][ last_event'.kind = "Block"
        => \A b \in InBlocks :
              \/ blocks[Self] = <<>>
              \/ ~PassesLinkChecks(b, Last(blocks[Self]))
              \/ blocks'[Self] = Append(blocks[Self], b)
              \/ ~inject_event(Self, Message("p3", BlockMsg(b))) ]_vars

\* C14 witness: the ledger ends with an inbound Block just appended whose
\* hash field is not the hash of its other fields.
C14_Witness ==
    /\ last_event.kind = "Block"
    /\ panicked[Self] = PANIC_NONE
    /\ Len(blocks[Self]) >= 2
    /\ Last(blocks[Self]) \in InBlocks
    /\ Rehash(Last(blocks[Self])) # Last(blocks[Self]).hash
    /\ PassesLinkChecks(Last(blocks[Self]), blocks[Self][Len(blocks[Self]) - 1])

\* C15: the ids of a ledger that is not empty are 0, 1, ..., n-1 in order.
C15_IdsCountFromZero ==
    \A i \in 1..Len(blocks[Self]) : blocks[Self][i].id = i - 1

\* C16: every digest whose first byte, written as eight binary digits,
\* starts with two zeros (a first byte below 64) meets the implemented
\* difficulty predicate.
C16_PaddedPrefixAccepted ==
    (call.fn = "hash_to_bin" /\ call.hash[1] < 64)
        => starts_with(call.ret, DIFF_PREFIX)

\* C17: every ChainResponse put on the response channel is published; a
\* node that has stopped has therefore none left on its channel.
C17_ResponsesGetPublished ==
    \A n \in Nodes : panicked[n] # PANIC_NONE => response_chan[n] = <<>>

\* C18: the ledger passes is_chain_valid in every reachable state, so the
\* node never dies in the last branch of choose_chain.
C18_LedgerAlwaysValid ==
    /\ Passes(is_chain_valid(blocks[Self]))
    /\ panicked[Self] # PANIC_BOTH_INVALID

\* C19: no event the node handles makes the ledger shorter.
C19_LedgerNeverShrinks ==
    [][ Len(blocks'[Self]) >= Len(blocks[Self]) ]_vars

\* C20: when an inbound Block has just been appended, handling the same
\* Block once more (try_add_block on the new ledger) leaves the ledger as
\* it is; when a ChainResponse for this node has just been handled and its
\* chain is now the ledger, handling the same ChainResponse once more
\* (choose_chain on the new ledger) returns the ledger it already has.  (A
\* ChainResponse that left the ledger as it was is handled the second time
\* by the very same call of choose_chain.)
C20_DuplicateDeliveryIdempotent ==
    [][ /\ ( /\ last_event'.kind = "Block"
              /\ blocks'[Self] # blocks[Self] )
            => try_add_block(blocks'[Self], Last(blocks'[Self])).chain
                  = blocks'[Self]
        /\ ( /\ last_event' = Event(Self, "ChainResponse", "for this node")
              /\ panicked'[Self] = PANIC_NONE )
            => \A msg \in ResponsesForSelf :
                  \/ msg.data.blocks # blocks'[Self]
                  \/ ~inject_event(Self, msg)
                  \/ choose_chain(blocks'[Self], msg.data.blocks)
                        = [panic |-> PANIC_NONE, chain |-> blocks'[Self]] ]_vars

\* C20 witness: the Block just appended carries its own hash as prev_hash,
\* so that a second delivery passes the prev_hash and difficulty checks and
\* is turned away by the id check alone.
C20_Witness ==
    /\ last_event.kind = "Block"
    /\ panicked[Self] = PANIC_NONE
    /\ Len(blocks[Self]) >= 2
    /\ Last(blocks[Self]).prev_hash = Last(blocks[Self]).hash
    /\ blocks[Self][Len(blocks[Self]) - 1].hash = Last(blocks[Self]).hash
    /\ try_add_block(blocks[Self], Last(blocks[Self])).chain = blocks[Self]

====
